---- MODULE Spec2Model ----
(***************************************************************************)
(* Model of the whale detector's recovery controller (manager.py), the     *)
(* schema builder it invokes (train_model.py), the scorer's consume loop   *)
(* and callback (analyzer.py) and the ingestor's reconnect loop            *)
(* (ingestor.py).                                                          *)
(***************************************************************************)
EXTENDS Integers, Sequences, FiniteSets, TLC

\* ------------------------------------------------------------------ bounds
\* health checks the controller performs in one behaviour
MaxPolls == 2
\* pages a paginated fetch walks through
MaxPages == 2
\* seconds a slow builder run is seen to last (more than one CHECK_INTERVAL)
MaxElapsed == 90
\* categories the exchange knows (indexes into CategoryColumnNames)
NumCategories == 2

\* market tickers the scorer's feed and the baseline store speak of
MaxTickers == 1
\* trade events delivered to the scorer in one behaviour
MaxEvents == 2
\* connection attempts of the ingestor in one behaviour
MaxConnects == 3
\* feed messages the ingestor receives in one behaviour
MaxMessages == 3

\* ------------------------------------------------------- program constants
MIN_REDIS_KEYS == 100
CHECK_INTERVAL == 60

\* the tmux sessions of stop_services / start_services
Sessions == {"ingestor", "analyzer", "alerter"}

\* DBSIZE answers the health check can see: below, at and above the threshold
KeyCounts == {50, MIN_REDIS_KEYS, 150}
\* the health check's docker exec returned non-zero (or raised)
CheckError == -1

VARIABLES
    pc,          \* controller position in main()'s loop
    state,       \* RecoveryState the position stands for
    sessions,    \* [Sessions -> Nat]: live instances of each dependent
    polls,       \* health checks made so far
    lastCount,   \* what the last health check saw (CheckError: the check failed)
    trace,       \* RecoveryState values in the order they were entered
    stops,       \* calls of stop_services
    starts,      \* calls of start_services
    down,        \* dependents stop_services has stopped and nothing has started since
    active,      \* recovery cycles begun and not finished
    elapsed,     \* seconds since the builder was invoked (capped)
    lastLog,     \* the controller's last log line
    hookFailed,  \* a lifecycle hook of the current cycle left a dependent in the wrong state
    hookSeen,    \* hook calls seen so far on a dependent already in the state asked for
    bpc,         \* builder position in train_model.main()
    rc,          \* exit code of the last builder process
    runId,       \* builder runs started
    outcome,     \* what the current/last builder run came to
    xTrain,      \* X_train of the current run: [rows, columns]
    baselines,   \* run that last wrote the baseline records (0: none)
    schemaFile,  \* model_categories.json: [run, categories]
    modelFile,   \* if_model.joblib: [run, nFeatures]
    pre,         \* the three artifacts as they were when the current run began
    store,       \* baseline:<ticker> records: [Tickers -> record, or NoBaseline]
    sPc,         \* scorer position in analyzer.main()
    model,       \* the scorer's loaded model ([run, nFeatures])
    modelCategories, \* the scorer's loaded category columns
    ev,          \* the delivery the callback is working on (NoEvent: none)
    delivered,   \* deliveries so far
    acks,        \* basic_ack calls so far
    fvCols,      \* what the last call's feature_vector holds, position by position
    fvHot,       \* the one-hot part of the last call's feature_vector
    fitted,      \* the scores the loaded forest gives (see FittedModels)
    chan,        \* the scorer's channel to the broker: "open" or "closed"
    res,         \* what the call of callback that has just returned did (see Outcome)
    last,        \* the delivery and the baseline record that call was given
    published,   \* alerts that reached the output queue so far
    prev,        \* on a redelivery: the earlier call on the same message (see Redeliver)
    iPc,         \* ingestor position in listen_to_kalshi()
    message,     \* its local variable `message` (Unbound until a first message came)
    clock,       \* seconds the ingestor has spent waiting
    headers,     \* the auth headers of the latest connection attempt
    connects,    \* connection attempts so far
    received,    \* feed messages received so far
    queued,      \* trades published to raw_trades so far
    rabbitOpen,  \* the ingestor's channel to the broker is usable
    waited       \* since the last failure of the feed connection the ingestor has slept

ctlVars == <<pc, state, sessions, polls, lastCount, active, elapsed,
             lastLog, hookFailed, hookSeen>>
\* history of a run, for the scenarios that speak of "the whole run"
histVars == <<trace, stops, starts, down>>
bldVars == <<bpc, rc, runId, outcome, xTrain, baselines, schemaFile, modelFile, pre>>
scrVars == <<store, sPc, model, modelCategories, ev, delivered, acks, fvCols,
             fvHot, fitted, chan, res, last, published, prev>>
ingVars == <<iPc, message, clock, headers, connects, received, queued,
             rabbitOpen, waited>>
vars == <<ctlVars, bldVars, histVars, scrVars, ingVars>>

\* ------------------------------------------------- feature schema (builder)
Categories == 1..NumCategories

\* pd.get_dummies names one column per observed category, "category_<name>",
\* in sorted order of the names; the index of a category is its rank in that order
CategoryColumnNames ==
    <<"category_Crypto", "category_Other", "category_Politics",
      "category_Sports", "category_World">>

\* feature_columns before the category columns are appended
FixedFeatureColumns ==
    <<"count", "yes_price", "avg_trade_size", "size_z_score",
      "time_to_resolution_hrs", "open_interest", "volume_24h">>

RECURSIVE SortedCategories(_)
SortedCategories(cats) ==
    IF cats = {} THEN <<>>
    ELSE LET least == CHOOSE c \in cats : \A d \in cats : c <= d
         IN <<least>> \o SortedCategories(cats \ {least})

\* category_columns: the dummy columns of trades_df in frame order
CategoryColumns(cats) ==
    [i \in 1..Cardinality(cats) |-> CategoryColumnNames[SortedCategories(cats)[i]]]

\* the columns of X_train, in order
FeatureColumns(cats) == FixedFeatureColumns \o CategoryColumns(cats)

\* ------------------------------------------------------ paginated fetches
\* the `while True` loop of a fetch: page `failAt` raises (0: none does), every
\* page before it adds perPage items; the loop ends after the page without a cursor
RECURSIVE FetchPages(_, _, _, _, _)
FetchPages(page, pages, failAt, perPage, acc) ==
    IF page = failAt THEN [ok |-> FALSE, items |-> acc]
    ELSE IF page = pages THEN [ok |-> TRUE, items |-> acc + perPage]
    ELSE FetchPages(page + 1, pages, failAt, perPage, acc + perPage)

\* len(series_map) returned: {} when any page raised
GetAllSeriesCategories(pages, failAt, perPage) ==
    LET r == FetchPages(1, pages, failAt, perPage, 0)
    IN IF r.ok THEN r.items ELSE 0

\* len(markets) returned: {} when any page raised
GetAllMarkets(pages, failAt, perPage) ==
    LET r == FetchPages(1, pages, failAt, perPage, 0)
    IN IF r.ok THEN r.items ELSE 0

\* a fetch that keeps the chunks gathered before the failing page
GetTradeHistoryPartial(pages, failAt, perPage) ==
    FetchPages(1, pages, failAt, perPage, 0).items

\* len(full_df) returned: an empty frame when a page raised, and also when no
\* page held trades (pd.concat of no chunks raises inside the same try)
GetTradeHistory(pages, failAt, perPage) ==
    LET r == FetchPages(1, pages, failAt, perPage, 0)
    IN IF r.ok /\ r.items > 0 THEN r.items ELSE 0

\* ---------------------------------------------------------------- builder
NoSchema == [run |-> 0, categories |-> <<>>]
NoModel == [run |-> 0, nFeatures |-> 0]
NoMatrix == [rows |-> 0, columns |-> <<>>]

Artifacts == <<baselines, schemaFile, modelFile>>

BuilderRunning == bpc \notin {"idle", "done"}

\* the first failure of a run names its outcome
Failed(kind) == IF outcome = "ok" THEN kind ELSE outcome

\* the process ends: `return` from main() or falling off its end exits 0, an
\* exception nobody catches exits 1
BuilderExit(code, result) ==
    /\ bpc' = "done"
    /\ rc' = code
    /\ outcome' = result

\* run_training: subprocess.run starts train_model.py
BuilderStart ==
    /\ pc = "retraining"
    /\ bpc = "idle"
    /\ bpc' = "series"
    /\ runId' = runId + 1
    /\ outcome' = "ok"
    /\ xTrain' = NoMatrix
    /\ pre' = Artifacts
    /\ elapsed' = 0
    /\ UNCHANGED <<rc, baselines, schemaFile, modelFile>>
    /\ UNCHANGED <<pc, state, sessions, polls, lastCount, active,
                   lastLog, hookFailed, hookSeen>>

\* series_cat_map = get_all_series_categories(); if not series_cat_map: return
BuildSeries ==
    /\ bpc = "series"
    /\ \E pages \in 1..MaxPages, failAt \in 0..MaxPages, perPage \in 0..1 :
          /\ failAt <= pages
          /\ outcome' = IF failAt # 0 THEN Failed("fetch_failed")
                         ELSE IF perPage = 0 THEN Failed("no_data")
                         ELSE outcome
          /\ IF GetAllSeriesCategories(pages, failAt, perPage) = 0
             THEN bpc' = "done" /\ rc' = 0
             ELSE bpc' = "markets" /\ rc' = rc
    /\ UNCHANGED <<runId, xTrain, baselines, schemaFile, modelFile, pre>>
    /\ UNCHANGED ctlVars

\* market_data = get_all_markets(series_cat_map); if not market_data: return
BuildMarkets ==
    /\ bpc = "markets"
    /\ \E pages \in 1..MaxPages, failAt \in 0..MaxPages, perPage \in 0..1 :
          /\ failAt <= pages
          /\ outcome' = IF failAt # 0 THEN Failed("fetch_failed")
                         ELSE IF perPage = 0 THEN Failed("no_data")
                         ELSE outcome
          /\ IF GetAllMarkets(pages, failAt, perPage) = 0
             THEN bpc' = "done" /\ rc' = 0
             ELSE bpc' = "trades" /\ rc' = rc
    /\ UNCHANGED <<runId, xTrain, baselines, schemaFile, modelFile, pre>>
    /\ UNCHANGED ctlVars

\* trades_df = get_trade_history(days); if trades_df.empty: return
BuildTrades ==
    /\ bpc = "trades"
    /\ \E pages \in 1..MaxPages, failAt \in 0..MaxPages, perPage \in 0..1 :
          /\ failAt <= pages
          /\ outcome' = IF failAt # 0 THEN Failed("fetch_failed")
                         ELSE IF perPage = 0 THEN Failed("no_data")
                         ELSE outcome
          /\ IF GetTradeHistory(pages, failAt, perPage) = 0
             THEN bpc' = "done" /\ rc' = 0
             ELSE bpc' = "features" /\ rc' = rc
    /\ UNCHANGED <<runId, xTrain, baselines, schemaFile, modelFile, pre>>
    /\ UNCHANGED ctlVars

\* create_feature_matrix: the join and the feature columns (an exception here is
\* caught by nobody), then model_categories.json is written inside a try/except
BuildFeatures ==
    /\ bpc = "features"
    /\ \/ BuilderExit(1, Failed("crashed"))
          /\ UNCHANGED <<xTrain, schemaFile>>
       \/ \E cats \in SUBSET Categories, rows \in 0..1, written \in BOOLEAN :
             \* a row that survives dropna() joined a market, so it carries a category
             /\ (rows > 0 => cats # {})
             /\ xTrain' = [rows |-> rows, columns |-> FeatureColumns(cats)]
             /\ schemaFile' = IF written
                              THEN [run |-> runId, categories |-> CategoryColumns(cats)]
                              ELSE schemaFile
             /\ outcome' = IF written THEN outcome ELSE Failed("persist_failed")
             /\ bpc' = "store"
             /\ rc' = rc
    /\ UNCHANGED <<runId, baselines, modelFile, pre>>
    /\ UNCHANGED ctlVars

\* store_baselines_in_redis: one pipeline, executed at once; a Redis error is
\* logged and swallowed
BuildStore ==
    /\ bpc = "store"
    /\ \E stored \in BOOLEAN :
          /\ baselines' = IF stored THEN runId ELSE baselines
          /\ outcome' = IF stored THEN outcome ELSE Failed("persist_failed")
    /\ bpc' = "fit"
    /\ UNCHANGED <<rc, runId, xTrain, schemaFile, modelFile, pre>>
    /\ UNCHANGED ctlVars

\* model = train_model(X_train): None for an empty matrix, an exception of fit()
\* is caught by nobody; `if model:` guards the dump, after which main() ends
BuildFit ==
    /\ bpc = "fit"
    /\ \/ xTrain.rows = 0 /\ BuilderExit(0, Failed("no_fit"))
       \/ xTrain.rows > 0 /\ BuilderExit(1, Failed("no_fit"))
       \/ xTrain.rows > 0 /\ bpc' = "dump" /\ UNCHANGED <<rc, outcome>>
    /\ UNCHANGED <<runId, xTrain, baselines, schemaFile, modelFile, pre>>
    /\ UNCHANGED ctlVars

\* joblib.dump(model, MODEL_FILE_PATH): the model was fit on this run's X_train
BuildDump ==
    /\ bpc = "dump"
    /\ \/ /\ modelFile' = [run |-> runId,
                           nFeatures |-> Len(xTrain.columns)]
          /\ BuilderExit(0, outcome)
       \/ /\ BuilderExit(1, Failed("persist_failed"))
          /\ UNCHANGED modelFile
    /\ UNCHANGED <<runId, xTrain, baselines, schemaFile, pre>>
    /\ UNCHANGED ctlVars

\* wall clock passing while the builder is blocked in a stage
Tick ==
    /\ BuilderRunning
    /\ elapsed < MaxElapsed
    /\ elapsed' = MaxElapsed
    /\ UNCHANGED <<pc, state, sessions, polls, lastCount, active,
                   lastLog, hookFailed, hookSeen>>
    /\ UNCHANGED bldVars

\* ------------------------------------------------------------- controller
\* a health check that only asks for a store that is not empty
HealthyNonEmpty(r) == r # CheckError /\ r > 0

\* check_redis_health: False when docker exec fails, else count > MIN_REDIS_KEYS
Healthy(r) == r # CheckError /\ r > MIN_REDIS_KEYS

\* a poll driven by a timer: due again CHECK_INTERVAL after the last one, whatever
\* the controller is doing
PollEnabledTimer == pc = "check" \/ elapsed >= CHECK_INTERVAL

\* main() is one blocking loop: the health check runs only at the top of an
\* iteration, after the previous iteration's calls and its sleep have returned
PollEnabled == pc = "check"

\* tmux new -d -s <name> with no regard for a session of that name
NewSessionAlways(n) == n + 1

\* tmux new -d -s <name>: refused ("duplicate session") when the session exists
NewSession(n) == IF n > 0 THEN n ELSE 1

\* tmux kill-session -t <name>: the session is gone, unless the command failed
KillSession(n, failed) == IF failed THEN n ELSE 0

\* is_healthy = check_redis_health(); if not is_healthy: ... for the answer r
PollWith(r) ==
    /\ PollEnabled
    /\ polls' = polls + 1
    /\ lastCount' = r
    /\ IF Healthy(r)
       THEN /\ pc' = "sleep"
            /\ state' = "HEALTHY"
            /\ UNCHANGED <<active, lastLog>>
       ELSE /\ pc' = "stopping"
            /\ state' = "STOPPING"
            /\ active' = active + 1
            /\ lastLog' = "emergency"
    /\ hookFailed' = FALSE
    /\ hookSeen' = {}
    /\ UNCHANGED <<sessions, elapsed>>
    /\ UNCHANGED bldVars

\* a health check with any answer
Poll ==
    /\ polls < MaxPolls
    /\ \E r \in KeyCounts \cup {CheckError} : PollWith(r)

\* stop_services(): kill-session for each name, return codes not looked at
StopServices ==
    /\ pc = "stopping"
    /\ \E survivors \in SUBSET {d \in Sessions : sessions[d] > 0} :
          /\ sessions' = [d \in Sessions |-> KillSession(sessions[d], d \in survivors)]
          /\ hookFailed' = (hookFailed \/ survivors # {})
    /\ hookSeen' = IF \E d \in Sessions : sessions[d] = 0
                   THEN hookSeen \cup {"stop_on_stopped"} ELSE hookSeen
    /\ pc' = "retraining"
    /\ state' = "RETRAINING"
    \* is_healthy has been used
    /\ lastCount' = 0
    /\ UNCHANGED <<polls, active, elapsed, lastLog>>
    /\ UNCHANGED bldVars

\* success = run_training() returns: returncode == 0 is success; then
\* `if success: start_services() ... else: logging.error("Recovery failed...")`
TrainingReturn ==
    /\ pc = "retraining"
    /\ bpc = "done"
    /\ bpc' = "idle"
    /\ IF rc = 0
       THEN /\ pc' = "restarting"
            /\ state' = "RESTARTING"
            /\ lastLog' = "training_finished"
            /\ UNCHANGED active
       ELSE /\ pc' = "sleep"
            /\ state' = "RETRAIN_FAILED"
            /\ lastLog' = "recovery_failed"
            /\ active' = active - 1
    \* the builder process is gone, and with it X_train
    /\ xTrain' = NoMatrix
    /\ pre' = Artifacts
    /\ elapsed' = 0
    /\ rc' = 0
    /\ UNCHANGED <<sessions, polls, lastCount, hookFailed, hookSeen>>
    /\ UNCHANGED <<runId, outcome, baselines, schemaFile, modelFile>>

\* start_services(): tmux new for each name, return codes not looked at; then
\* "System recovered. Monitoring will resume."
StartServices ==
    /\ pc = "restarting"
    /\ \E failing \in SUBSET Sessions :
          /\ sessions' = [d \in Sessions |->
                            IF d \in failing THEN sessions[d] ELSE NewSession(sessions[d])]
          /\ hookFailed' = (hookFailed \/ \E d \in failing : sessions[d] = 0)
    /\ hookSeen' = IF \E d \in Sessions : sessions[d] > 0
                   THEN hookSeen \cup {"start_on_running"} ELSE hookSeen
    /\ lastLog' = "system_recovered"
    /\ pc' = "sleep"
    /\ state' = "HEALTHY"
    /\ active' = active - 1
    /\ UNCHANGED <<polls, lastCount, elapsed>>
    /\ UNCHANGED bldVars

\* time.sleep(CHECK_INTERVAL) at the end of every iteration
Sleep ==
    /\ pc = "sleep"
    /\ pc' = "check"
    /\ UNCHANGED <<state, sessions, polls, lastCount, active, elapsed,
                   lastLog, hookFailed, hookSeen>>
    /\ UNCHANGED bldVars


\* ----------------------------------------------------------------- scorer
Tickers == 1..MaxTickers
NoEvent == [ticker |-> 0]

\* dict.get on a key that is absent or null gives None
Null == -1000
\* a value the arithmetic or the date parser rejects: a string where a number
\* is expected, a close_time that is no date
BadType == -2000

\* scores are kept in tenths: -0.7 is -7
ANOMALY_SCORE_THRESHOLD == -7

\* channel.basic_qos(prefetch_count=1)
PrefetchCount == 1

\* ---- the trade messages of the input queue
\* taker_side "none": the message has no taker_side
TakerSides == {"yes", "no", "none"}
TradeSizes == {5, 500}

\* a trade of ticker 1; `category` is a field of the message itself, which
\* the callback never reads
TradeProbe ==
    [json |-> TRUE, market_ticker |-> 1, count |-> 500, yes_price |-> 60,
     no_price |-> 40, ts |-> 7200, taker_side |-> "no", category |-> 1]

WellFormedTrades ==
    {[TradeProbe EXCEPT !.market_ticker = t, !.count = c, !.taker_side = s] :
        t \in Tickers, c \in TradeSizes, s \in TakerSides}

\* a body that is no JSON, a message without one of the fields the callback
\* needs, a count that is a string
MalformedTrades ==
    {[TradeProbe EXCEPT !.json = FALSE],
     [TradeProbe EXCEPT !.market_ticker = Null],
     [TradeProbe EXCEPT !.count = Null],
     [TradeProbe EXCEPT !.yes_price = Null],
     [TradeProbe EXCEPT !.ts = Null],
     [TradeProbe EXCEPT !.count = BadType]}

Trades == WellFormedTrades \cup MalformedTrades

\* ---- the baseline:<ticker> records of the store
BaselineProbe ==
    [present |-> TRUE, category |-> 1, avg_trade_size |-> 50,
     std_dev_trade_size |-> 10, close_time |-> 10800, open_interest |-> 1000,
     volume_24h |-> 200, title |-> "title", url |-> "url"]

\* redis_client.get returns None
NoBaseline ==
    [present |-> FALSE, category |-> 0, avg_trade_size |-> Null,
     std_dev_trade_size |-> Null, close_time |-> Null, open_interest |-> Null,
     volume_24h |-> Null, title |-> "", url |-> ""]

\* a market that closes after the trades (ts 7200) and one that closed before
WellFormedBaselines ==
    {[BaselineProbe EXCEPT !.category = c, !.std_dev_trade_size = p[1],
                           !.close_time = p[2]] :
        c \in Categories, p \in {<<0, 10800>>, <<10, 3600>>}}

MalformedBaselines ==
    {[BaselineProbe EXCEPT !.avg_trade_size = Null],
     [BaselineProbe EXCEPT !.std_dev_trade_size = Null],
     [BaselineProbe EXCEPT !.std_dev_trade_size = -1],
     [BaselineProbe EXCEPT !.close_time = Null],
     [BaselineProbe EXCEPT !.close_time = BadType]}

BaselineRecords == WellFormedBaselines \cup MalformedBaselines

\* the stores the scorer is run against: any record or none for ticker 1 (the
\* ticker of TradeProbe), a well-formed record or none for the others
Stores ==
    {st \in [Tickers -> BaselineRecords \cup {NoBaseline}] :
        \A t \in Tickers : t > 1 => st[t] \notin MalformedBaselines}

\* ---- the fitted forest: what score_samples gives a trade above the market's
\* average size and what it gives any other trade
FittedModels == {[large |-> s, small |-> -5] : s \in {-8, ANOMALY_SCORE_THRESHOLD, -5}}
Unfitted == [large |-> 0, small |-> 0]

\* json.dump({'categories': category_columns}, f) and json.load(f)['categories']
DumpSchema(columns) == [categories |-> columns]
LoadSchema(file) == file.categories

\* the seven values feature_vector starts with, by the names of the variables
ScorerNumericColumns ==
    <<"count", "yes_price", "avg_trade_size", "size_z_score",
      "time_to_resolution_hrs", "open_interest", "volume_24h">>

Reverse(q) == [i \in 1..Len(q) |-> q[Len(q) + 1 - i]]

\* a vector whose category part runs against the order of the schema
ScorerColumnsReversed(categories) == ScorerNumericColumns \o Reverse(categories)

\* feature_vector = [count, ..., volume_24h], then
\* feature_vector.extend([category_features[col] for col in model_categories])
ScorerColumns(categories) == ScorerNumericColumns \o categories

\* a one-hot part that grows a column for a category the schema lacks
OneHotAppending(category, categories) ==
    IF \E i \in 1..Len(categories) : categories[i] = CategoryColumnNames[category]
    THEN [i \in 1..Len(categories) |->
             IF categories[i] = CategoryColumnNames[category] THEN 1 ELSE 0]
    ELSE [i \in 1..Len(categories) |-> 0] \o <<1>>

\* category_features after `if trade_category_col in category_features: ... = 1`,
\* read out in the order of model_categories; category is the baseline's
OneHot(category, categories) ==
    [i \in 1..Len(categories) |->
        IF categories[i] = CategoryColumnNames[category] THEN 1 ELSE 0]

\* the category of the live message instead of the market's
TradeCategoryOfMessage(trade, baseline) == trade.category

\* category = baselines.get('category', 'Other')
TradeCategory(trade, baseline) == baseline.category

\* `if any(v is None for v in [count, yes_price, trade_time_ts, avg_trade_size,
\* std_dev_trade_size, close_time_str])`
FieldMissing(trade, baseline) ==
    Null \in {trade.count, trade.yes_price, trade.ts, baseline.avg_trade_size,
              baseline.std_dev_trade_size, baseline.close_time}

\* a z-score that divides by the bare standard deviation
SizeZScoreUnguarded(count, avg, std) == <<count - avg, std>>

\* (count - avg_trade_size) / (std_dev_trade_size + 1), kept as <<numerator,
\* denominator>>
SizeZScore(count, avg, std) == <<count - avg, std + 1>>

\* create_feature_matrix: (trades_df['count'] - trades_df['avg_trade_size'])
\* / (trades_df['std_dev_trade_size'] + 1), row by row
TrainSizeZScore(count, avg, std) == <<count - avg, std + 1>>

\* hours to the close with the sign kept
TimeToResolutionHrsSigned(close, ts) == <<close - ts, 3600>>

\* max(0, (close_time_dt - trade_time_dt).total_seconds() / 3600.0), kept as
\* <<seconds, 3600>>
TimeToResolutionHrs(close, ts) ==
    IF close - ts > 0 THEN <<close - ts, 3600>> ELSE <<0, 3600>>

\* create_feature_matrix: ((close_time - created_time).dt.total_seconds()
\* / 3600.0).clip(lower=0)
TrainTimeToResolutionHrs(close, created) ==
    IF close - created < 0 THEN <<0, 3600>> ELSE <<close - created, 3600>>

\* the next statements raise: count - avg_trade_size on a string (TypeError),
\* a division by zero (ZeroDivisionError), pd.to_datetime on a text that is no
\* date
Raises(trade, baseline) ==
    \/ BadType \in {trade.count, trade.yes_price, trade.ts}
    \/ BadType \in {baseline.avg_trade_size, baseline.std_dev_trade_size,
                    baseline.close_time}
    \/ SizeZScore(trade.count, baseline.avg_trade_size,
                  baseline.std_dev_trade_size)[2] = 0

\* feature_vector, by value
FeatureVector(trade, baseline, categories) ==
    <<trade.count, trade.yes_price, baseline.avg_trade_size,
      SizeZScore(trade.count, baseline.avg_trade_size, baseline.std_dev_trade_size),
      TimeToResolutionHrs(baseline.close_time, trade.ts),
      baseline.open_interest, baseline.volume_24h>>
    \o OneHot(TradeCategory(trade, baseline), categories)

\* a scorer with a memory: once an alert went out, every trade scores as small
ForestScoreStateful(fit, fv) ==
    IF published > 0 THEN fit.small
    ELSE IF fv[4][1] > 0 THEN fit.large ELSE fit.small

\* the forest's answer to a vector of the width it was fitted on
ForestScore(fit, fv) == IF fv[4][1] > 0 THEN fit.large ELSE fit.small

\* a scorer that cuts or pads the vector to the model's width and scores it
ScoreSamplesResized(mdl, fit, fv) == [ok |-> TRUE, score |-> ForestScore(fit, fv)]

\* model.score_samples([feature_vector])[0]: scikit-learn raises ValueError when
\* the vector has another number of features than the fitted model
ScoreSamples(mdl, fit, fv) ==
    IF Len(fv) # mdl.nFeatures
    THEN [ok |-> FALSE, score |-> 0]
    ELSE [ok |-> TRUE, score |-> ForestScore(fit, fv)]

IsAnomalyInclusive(score) == score <= ANOMALY_SCORE_THRESHOLD

\* if score < ANOMALY_SCORE_THRESHOLD
IsAnomaly(score) == score < ANOMALY_SCORE_THRESHOLD

PricePaidYes(trade) == trade.yes_price

\* trade.get('no_price') if taker_side == 'no' else trade.get('yes_price')
PricePaid(trade) ==
    IF trade.taker_side = "no" THEN trade.no_price ELSE trade.yes_price

\* alert_msg
AlertMsg(trade, baseline, score) ==
    [ticker |-> trade.market_ticker, trade_size |-> trade.count,
     price_paid |-> PricePaid(trade), taker_side |-> trade.taker_side,
     anomaly_score |-> score, trade_time |-> trade.ts,
     market_close_time |-> baseline.close_time, title |-> baseline.title,
     url |-> baseline.url, category |-> TradeCategory(trade, baseline)]

\* ---- what one call of callback does
\* one call on the channel and whether it went through; on a closed channel
\* basic_publish and basic_ack raise
Attempt(op, open) == [op |-> op, ok |-> open]

\* path: the branch taken; ops: the channel calls in order; fv: the feature
\* vector if one was built; invoked: score_samples was called; alerts: the
\* messages that reached the output queue; crashed: an exception left callback
Outcome(path, ops, fv, invoked, score, alerts, crashed) ==
    [path |-> path, ops |-> ops, fv |-> fv, invoked |-> invoked,
     score |-> score, alerts |-> alerts, crashed |-> crashed]

NoOutcome == Outcome("none", <<>>, <<>>, FALSE, 0, <<>>, FALSE)
NoCall == [trade |-> NoEvent, baseline |-> NoBaseline, open |-> TRUE]
NoPrev == [call |-> NoCall, res |-> NoOutcome]

\* a callback without the except clause
HandlerReraise(ops, fv, invoked, alerts, open) ==
    Outcome("error", ops, fv, invoked, 0, alerts, TRUE)

\* except Exception as e: logging.error(...); ch.basic_ack(...). The ack of the
\* handler is not guarded: when it raises, the exception leaves callback
Handler(ops, fv, invoked, alerts, open) ==
    Outcome("error", Append(ops, Attempt("ack", open)), fv, invoked, 0, alerts,
            ~open)

\* a ch.basic_ack inside the try; when it raises the handler runs
AckInTry(path, ops, fv, invoked, score, alerts, open) ==
    IF open
    THEN Outcome(path, Append(ops, Attempt("ack", TRUE)), fv, invoked, score,
                 alerts, FALSE)
    ELSE Handler(Append(ops, Attempt("ack", FALSE)), fv, invoked, alerts, open)

\* `if not ticker: ch.basic_ack(...); return`
DropNoTicker(open) == AckInTry("no_ticker", <<>>, <<>>, FALSE, 0, <<>>, open)

\* an early return that forgets the ack
ReturnNoBaseline(open) == Outcome("no_baseline", <<>>, <<>>, FALSE, 0, <<>>, FALSE)

\* `if not baseline_data: ch.basic_ack(...); return`
DropNoBaseline(open) == AckInTry("no_baseline", <<>>, <<>>, FALSE, 0, <<>>, open)

ReturnMissingField(open) == Outcome("missing_field", <<>>, <<>>, FALSE, 0, <<>>, FALSE)

\* `if any(v is None ...): ch.basic_ack(...); return`
DropMissingField(open) == AckInTry("missing_field", <<>>, <<>>, FALSE, 0, <<>>, open)

\* channel.basic_publish(...) of the alert, then the ack that ends the callback
PublishAlert(trade, baseline, fv, score, open) ==
    IF open
    THEN AckInTry("alert", <<Attempt("publish", TRUE)>>, fv, TRUE, score,
                  <<AlertMsg(trade, baseline, score)>>, open)
    ELSE Handler(<<Attempt("publish", FALSE)>>, fv, TRUE, <<>>, open)

\* callback(ch, method, properties, body), top to bottom; baseline is what
\* redis_client.get gave for the trade's ticker
CallbackResult(trade, baseline, categories, mdl, fit, open) ==
    IF ~trade.json
    THEN Handler(<<>>, <<>>, FALSE, <<>>, open)
    ELSE IF trade.market_ticker = Null
    THEN DropNoTicker(open)
    ELSE IF ~baseline.present
    THEN DropNoBaseline(open)
    ELSE IF FieldMissing(trade, baseline)
    THEN DropMissingField(open)
    ELSE IF Raises(trade, baseline)
    THEN Handler(<<>>, <<>>, FALSE, <<>>, open)
    ELSE LET fv == FeatureVector(trade, baseline, categories)
             scored == ScoreSamples(mdl, fit, fv)
         IN  IF ~scored.ok
             THEN Handler(<<>>, fv, TRUE, <<>>, open)
             ELSE IF IsAnomaly(scored.score)
             THEN PublishAlert(trade, baseline, fv, scored.score, open)
             ELSE AckInTry("scored", <<>>, fv, TRUE, scored.score, <<>>, open)

\* redis_client.get(f"baseline:{ticker}")
Lookup(trade) ==
    IF trade.market_ticker \in Tickers THEN store[trade.market_ticker]
    ELSE NoBaseline

\* the successful calls of one kind among the channel calls of a callback
Done(ops, op) == Cardinality({i \in DOMAIN ops : ops[i] = Attempt(op, TRUE)})

\* main(): load_artifacts(), `if not all([model, redis_client, model_categories]):
\* return`; a missing file makes load_artifacts return None, an empty list is falsy
LoadArtifacts ==
    /\ sPc = "start"
    /\ IF modelFile = NoModel \/ schemaFile = NoSchema
          \/ LoadSchema(DumpSchema(schemaFile.categories)) = <<>>
       THEN /\ sPc' = "exited"
            /\ UNCHANGED <<model, modelCategories>>
       ELSE /\ sPc' = "consuming"
            /\ model' = modelFile
            /\ modelCategories' = LoadSchema(DumpSchema(schemaFile.categories))
    /\ UNCHANGED <<store, ev, delivered, acks, fvCols, fvHot>>
    /\ UNCHANGED <<fitted, chan, res, last, published, prev>>
    /\ UNCHANGED <<ctlVars, bldVars, histVars, ingVars>>

\* a broker that pushes messages without regard to the unacknowledged ones
WithinPrefetchUnlimited(unacked) == TRUE

\* channel.basic_qos(prefetch_count=1): the broker pushes a message only while
\* fewer than prefetch_count deliveries of the channel are unacknowledged
WithinPrefetch(unacked) == unacked < PrefetchCount

\* the queue hands one trade to the callback. With a window of one the message
\* pushed is the only one the consumer holds. res, last and the vector speak
\* of the call that has just returned and are cleared here
Deliver ==
    /\ sPc = "consuming"
    /\ chan = "open"
    /\ WithinPrefetch(delivered - acks)
    /\ delivered < MaxEvents
    /\ \E t \in Trades : ev' = t
    /\ delivered' = delivered + 1
    /\ res' = NoOutcome
    /\ last' = NoCall
    /\ prev' = NoPrev
    /\ fvCols' = <<>>
    /\ fvHot' = <<>>
    /\ UNCHANGED <<store, sPc, model, modelCategories, acks>>
    /\ UNCHANGED <<fitted, chan, published>>
    /\ UNCHANGED <<ctlVars, bldVars, histVars, ingVars>>

\* at-least-once delivery: the queue hands the callback a message it has
\* already handled (the ingestor published it twice, or the broker did not see
\* the ack). prev keeps what the earlier call was given and did
Redeliver ==
    /\ sPc = "consuming"
    /\ chan = "open"
    /\ WithinPrefetch(delivered - acks)
    /\ ev = NoEvent
    /\ last.trade # NoEvent
    /\ delivered < MaxEvents
    /\ ev' = last.trade
    /\ delivered' = delivered + 1
    /\ prev' = [call |-> last, res |-> res]
    /\ res' = NoOutcome
    /\ last' = NoCall
    /\ fvCols' = <<>>
    /\ fvHot' = <<>>
    /\ UNCHANGED <<store, sPc, model, modelCategories, acks>>
    /\ UNCHANGED <<fitted, chan, published>>
    /\ UNCHANGED <<ctlVars, bldVars, histVars, ingVars>>

\* the connection to the broker is lost; input and output queue share the one
\* channel. With no callback running, start_consuming raises and main() ends
ConnectionLost ==
    /\ sPc = "consuming"
    /\ chan = "open"
    /\ chan' = "closed"
    /\ sPc' = IF ev = NoEvent THEN "crashed" ELSE sPc
    /\ UNCHANGED <<store, model, modelCategories, ev, delivered, acks, fvCols,
                   fvHot, fitted, res, last, published, prev>>
    /\ UNCHANGED <<ctlVars, bldVars, histVars, ingVars>>

\* one call of callback on the delivery at hand; an exception that leaves
\* callback leaves start_consuming and main() as well
Callback ==
    /\ sPc = "consuming"
    /\ ev # NoEvent
    /\ LET r == CallbackResult(ev, Lookup(ev), modelCategories, model, fitted,
                               chan = "open")
       IN  /\ res' = r
           /\ last' = [trade |-> ev, baseline |-> Lookup(ev),
                       open |-> chan = "open"]
           /\ acks' = acks + Done(r.ops, "ack")
           /\ published' = published + Len(r.alerts)
           /\ IF r.fv = <<>>
              THEN fvCols' = <<>> /\ fvHot' = <<>>
              ELSE /\ fvCols' = ScorerColumns(modelCategories)
                   /\ fvHot' = SubSeq(r.fv, Len(ScorerNumericColumns) + 1, Len(r.fv))
           /\ sPc' = IF r.crashed THEN "crashed" ELSE sPc
    /\ ev' = NoEvent
    /\ UNCHANGED <<store, model, modelCategories, delivered, fitted, chan, prev>>
    /\ UNCHANGED <<ctlVars, bldVars, histVars, ingVars>>

\* Ctrl-C: KeyboardInterrupt is raised in the one thread of the process. In
\* start_consuming it is caught by main(): stop_consuming(), connection.close().
\* Inside callback it is no Exception, so the except clause lets it pass: the
\* call ends where it stands, after `k` of its channel calls and before its
\* last one, and main() closes the connection
Shutdown ==
    /\ sPc = "consuming"
    /\ sPc' = "stopped"
    /\ chan' = "closed"
    /\ ev' = NoEvent
    /\ IF ev = NoEvent
       THEN UNCHANGED <<res, last, acks, published, fvCols, fvHot>>
       ELSE LET r == CallbackResult(ev, Lookup(ev), modelCategories, model,
                                    fitted, chan = "open")
            IN  \E k \in 0..(Len(r.ops) - 1) :
                   LET made == SubSeq(r.ops, 1, k)
                   IN  /\ res' = Outcome("interrupted", made, <<>>, FALSE, 0,
                                         IF Done(made, "publish") > 0
                                         THEN r.alerts ELSE <<>>, FALSE)
                       /\ acks' = acks + Done(made, "ack")
                       /\ published' = published + Done(made, "publish")
                       /\ last' = NoCall
                       /\ fvCols' = <<>>
                       /\ fvHot' = <<>>
    /\ UNCHANGED <<store, model, modelCategories, delivered, fitted, prev>>
    /\ UNCHANGED <<ctlVars, bldVars, histVars, ingVars>>

\* --------------------------------------------------------------- ingestor
\* await asyncio.sleep(5) in both except clauses
ReconnectDelay == 5

\* `message` before `async for message in websocket` has assigned it
Unbound == "unbound"

\* what the feed sends: a trade message whose msg is one trade, a list of two
\* trades, or neither; the answer to the subscription; a subscription error; a
\* text that is no JSON
Messages ==
    {"trade_dict", "trade_list", "trade_other", "subscribed", "error", "not_json"}

NoHeaders == [timestamp |-> -1]

\* create_auth_headers: timestamp = str(int(time.time() * 1000)), signed
CreateAuthHeaders(now) == [timestamp |-> now]

\* trades one message puts on raw_trades
Publishes(m) ==
    CASE m = "trade_dict" -> 1
      [] m = "trade_list" -> 2
      [] OTHER -> 0

\* handling the message raises: json.loads on a text that is no JSON,
\* basic_publish on a lost broker channel
HandleRaises(m, open) == m = "not_json" \/ (Publishes(m) > 0 /\ ~open)

\* except Exception as e: logging.error(f"... Raw message: {message}. ...");
\* await asyncio.sleep(5). The f-string reads `message`; read before it was
\* ever assigned it raises UnboundLocalError inside the handler, which nothing
\* catches: listen_to_kalshi ends
ExceptException(msg) == IF msg = Unbound THEN "terminated" ELSE "sleeping"

IngestorAbsent ==
    /\ iPc = "absent"
    /\ message = Unbound
    /\ clock = 0
    /\ headers = NoHeaders
    /\ connects = 0
    /\ received = 0
    /\ queued = 0
    /\ rabbitOpen = FALSE
    /\ waited = TRUE

\* load_private_key and connect_to_rabbitmq, once; either failing ends the
\* function before the loop
IngestorStart ==
    /\ iPc = "start"
    /\ \E keyLoaded \in BOOLEAN, rabbitUp \in BOOLEAN :
          /\ iPc' = IF keyLoaded /\ rabbitUp THEN "loop" ELSE "exited"
          /\ rabbitOpen' = (keyLoaded /\ rabbitUp)
    /\ UNCHANGED <<message, clock, headers, connects, received, queued, waited>>
    /\ UNCHANGED <<ctlVars, bldVars, histVars, scrVars>>

\* top of `while True`: fresh headers, websockets.connect, the subscribe message.
\* "refused": connect or handshake fails (OSError, InvalidStatusCode, ...), an
\* Exception. "closed": the connection closes under send, ConnectionClosed
Connect ==
    /\ iPc = "loop"
    /\ connects < MaxConnects
    /\ connects' = connects + 1
    /\ headers' = CreateAuthHeaders(clock)
    /\ \E result \in {"connected", "refused", "closed"} :
          /\ iPc' = CASE result = "connected" -> "listening"
                      [] result = "refused" -> ExceptException(message)
                      [] OTHER -> "sleeping"
          /\ waited' = IF result = "connected" THEN waited ELSE FALSE
    /\ UNCHANGED <<message, clock, received, queued, rabbitOpen>>
    /\ UNCHANGED <<ctlVars, bldVars, histVars, scrVars>>

\* one turn of `async for message in websocket`: the message is assigned, then
\* handled; an exception in the handling goes to `except Exception`
Receive ==
    /\ iPc = "listening"
    /\ received < MaxMessages
    /\ received' = received + 1
    /\ \E m \in Messages :
          /\ message' = m
          /\ IF HandleRaises(m, rabbitOpen)
             THEN /\ iPc' = ExceptException(m)
                  /\ waited' = FALSE
                  /\ UNCHANGED queued
             ELSE /\ queued' = queued + Publishes(m)
                  /\ UNCHANGED <<iPc, waited>>
    /\ UNCHANGED <<clock, headers, connects, rabbitOpen>>
    /\ UNCHANGED <<ctlVars, bldVars, histVars, scrVars>>

\* the feed connection closes while the ingestor listens. A close with an error
\* raises ConnectionClosed out of the iteration (sleep, then the loop); after a
\* normal close the iteration just ends and `while True` goes round at once
FeedClosed ==
    /\ iPc = "listening"
    /\ \E normal \in BOOLEAN : iPc' = IF normal THEN "loop" ELSE "sleeping"
    /\ waited' = FALSE
    /\ UNCHANGED <<message, clock, headers, connects, received, queued, rabbitOpen>>
    /\ UNCHANGED <<ctlVars, bldVars, histVars, scrVars>>

\* asyncio.sleep(5) returns
Wake ==
    /\ iPc = "sleeping"
    /\ iPc' = "loop"
    /\ clock' = clock + ReconnectDelay
    /\ waited' = TRUE
    /\ UNCHANGED <<message, headers, connects, received, queued, rabbitOpen>>
    /\ UNCHANGED <<ctlVars, bldVars, histVars, scrVars>>

\* the broker connection made before the loop is lost; nothing remakes it
RabbitLost ==
    /\ iPc \in {"loop", "listening", "sleeping"}
    /\ rabbitOpen
    /\ rabbitOpen' = FALSE
    /\ UNCHANGED <<iPc, message, clock, headers, connects, received, queued, waited>>
    /\ UNCHANGED <<ctlVars, bldVars, histVars, scrVars>>

\* ---------------------------------------------------------- specification
\* the manager has just started; the dependents may or may not be running
InitController ==
    /\ pc = "check"
    /\ state = "HEALTHY"
    /\ sessions \in [Sessions -> {0, 1}]
    /\ polls = 0
    /\ lastCount = 0
    /\ active = 0
    /\ elapsed = 0
    /\ lastLog = "manager_started"
    /\ hookFailed = FALSE
    /\ hookSeen = {}
    /\ trace = <<"HEALTHY">>
    /\ stops = 0
    /\ starts = 0
    /\ down = {}

InitBuilder ==
    /\ bpc = "idle"
    /\ rc = 0
    /\ runId = 0
    /\ outcome = "none"
    /\ xTrain = NoMatrix
    /\ baselines = 0
    /\ schemaFile = NoSchema
    /\ modelFile = NoModel
    /\ pre = <<0, NoSchema, NoModel>>

\* no scorer process
ScorerAbsent ==
    /\ store = [t \in Tickers |-> NoBaseline]
    /\ sPc = "absent"
    /\ model = NoModel
    /\ modelCategories = <<>>
    /\ ev = NoEvent
    /\ delivered = 0
    /\ acks = 0
    /\ fvCols = <<>>
    /\ fvHot = <<>>
    /\ fitted = Unfitted
    /\ chan = "open"
    /\ res = NoOutcome
    /\ last = NoCall
    /\ published = 0
    /\ prev = NoPrev

Init == InitController /\ InitBuilder /\ ScorerAbsent /\ IngestorAbsent

\* one step of the controller or of the builder it runs; the history of the run
\* is kept in the scenario only
Next ==
    \/ Poll /\ UNCHANGED <<histVars, scrVars, ingVars>>
    \/ StopServices /\ UNCHANGED <<histVars, scrVars, ingVars>>
    \/ BuilderStart /\ UNCHANGED <<histVars, scrVars, ingVars>>
    \/ BuildSeries /\ UNCHANGED <<histVars, scrVars, ingVars>>
    \/ BuildMarkets /\ UNCHANGED <<histVars, scrVars, ingVars>>
    \/ BuildTrades /\ UNCHANGED <<histVars, scrVars, ingVars>>
    \/ BuildFeatures /\ UNCHANGED <<histVars, scrVars, ingVars>>
    \/ BuildStore /\ UNCHANGED <<histVars, scrVars, ingVars>>
    \/ BuildFit /\ UNCHANGED <<histVars, scrVars, ingVars>>
    \/ BuildDump /\ UNCHANGED <<histVars, scrVars, ingVars>>
    \/ Tick /\ UNCHANGED <<histVars, scrVars, ingVars>>
    \/ TrainingReturn /\ UNCHANGED <<histVars, scrVars, ingVars>>
    \/ StartServices /\ UNCHANGED <<histVars, scrVars, ingVars>>
    \/ Sleep /\ UNCHANGED <<histVars, scrVars, ingVars>>

Spec == Init /\ [][Next]_vars

\* -------------------------------------------------- the scripted scenario
\* the health-check answers of the scenario, in order
Script == <<50, 50, 150>>

PollScript ==
    /\ polls < Len(Script)
    /\ PollWith(Script[polls + 1])

\* what a step adds to the history of the run
Record ==
    /\ trace' = IF state' # state THEN Append(trace, state') ELSE trace
    /\ stops' = IF pc = "stopping" /\ pc' # "stopping" THEN stops + 1 ELSE stops
    /\ starts' = IF pc = "restarting" /\ pc' # "restarting" THEN starts + 1 ELSE starts
    /\ down' = (down \cup {d \in Sessions : sessions[d] > 0 /\ sessions'[d] = 0})
                   \ {d \in Sessions : sessions'[d] > 0}

NextScenario ==
    \/ PollScript /\ Record /\ UNCHANGED <<scrVars, ingVars>>
    \/ StopServices /\ Record /\ UNCHANGED <<scrVars, ingVars>>
    \/ BuilderStart /\ Record /\ UNCHANGED <<scrVars, ingVars>>
    \/ BuildSeries /\ Record /\ UNCHANGED <<scrVars, ingVars>>
    \/ BuildMarkets /\ Record /\ UNCHANGED <<scrVars, ingVars>>
    \/ BuildTrades /\ Record /\ UNCHANGED <<scrVars, ingVars>>
    \/ BuildFeatures /\ Record /\ UNCHANGED <<scrVars, ingVars>>
    \/ BuildStore /\ Record /\ UNCHANGED <<scrVars, ingVars>>
    \/ BuildFit /\ Record /\ UNCHANGED <<scrVars, ingVars>>
    \/ BuildDump /\ Record /\ UNCHANGED <<scrVars, ingVars>>
    \/ Tick /\ Record /\ UNCHANGED <<scrVars, ingVars>>
    \/ TrainingReturn /\ Record /\ UNCHANGED <<scrVars, ingVars>>
    \/ StartServices /\ Record /\ UNCHANGED <<scrVars, ingVars>>
    \/ Sleep /\ Record /\ UNCHANGED <<scrVars, ingVars>>

SpecScenario == Init /\ [][NextScenario]_vars


\* ------------------------------------------------- the scorer on its own
\* the builder's second run, over trades of the categories `cats`, has persisted
\* baselines and schema; xTrain keeps the matrix of that run. The model file is
\* of the same run, or (a second run that fitted nothing) still the one of the
\* first run, which saw every category. The analyzer is being started.
InitScorer ==
    /\ InitController
    /\ IngestorAbsent
    /\ \A d \in Sessions : sessions[d] = 1
    /\ bpc = "idle"
    /\ rc = 0
    /\ runId = 2
    /\ outcome = "ok"
    /\ baselines = 2
    /\ \E cats \in SUBSET Categories : \E sameRun \in BOOLEAN :
          /\ xTrain = [rows |-> Cardinality(cats), columns |-> FeatureColumns(cats)]
          /\ schemaFile = [run |-> 2, categories |-> CategoryColumns(cats)]
          /\ modelFile = IF sameRun
                         THEN IF cats = {} THEN NoModel
                              ELSE [run |-> 2, nFeatures |-> Len(FeatureColumns(cats))]
                         ELSE [run |-> 1, nFeatures |-> Len(FeatureColumns(Categories))]
    /\ pre = <<0, NoSchema, NoModel>>
    /\ store \in Stores
    /\ sPc = "start"
    /\ model = NoModel
    /\ modelCategories = <<>>
    /\ ev = NoEvent
    /\ delivered = 0
    /\ acks = 0
    /\ fvCols = <<>>
    /\ fvHot = <<>>
    /\ fitted \in FittedModels
    /\ chan = "open"
    /\ res = NoOutcome
    /\ last = NoCall
    /\ published = 0
    /\ prev = NoPrev

NextScorer ==
    \/ LoadArtifacts
    \/ Deliver
    \/ Redeliver
    \/ ConnectionLost
    \/ Callback
    \/ Shutdown

SpecScorer == InitScorer /\ [][NextScorer]_vars

\* ----------------------------------------------- the ingestor on its own
InitIngestor ==
    /\ InitController
    /\ \A d \in Sessions : sessions[d] = 1
    /\ InitBuilder
    /\ ScorerAbsent
    /\ iPc = "start"
    /\ message = Unbound
    /\ clock = 0
    /\ headers = NoHeaders
    /\ connects = 0
    /\ received = 0
    /\ queued = 0
    /\ rabbitOpen = FALSE
    /\ waited = TRUE

NextIngestor ==
    \/ IngestorStart
    \/ Connect
    \/ Receive
    \/ FeedClosed
    \/ Wake
    \/ RabbitLost

SpecIngestor == InitIngestor /\ [][NextIngestor]_vars

\* ================================================================= claims
Range(q) == {q[i] : i \in DOMAIN q}

\* the scenario has run: all answers of the script were consumed and every
\* builder run was a success to the controller
ScenarioRan ==
    /\ polls = Len(Script)
    /\ pc = "sleep"
    /\ "RETRAIN_FAILED" \notin Range(trace)

OneCycle == <<"HEALTHY", "STOPPING", "RETRAINING", "RESTARTING", "HEALTHY">>
TwoCycles == OneCycle \o SubSeq(OneCycle, 2, Len(OneCycle))

\* C1 as stated: with the health checks answering 50, 50, 150 and the builder
\* succeeding, the controller goes through one recovery cycle, stopping and
\* restarting the dependents exactly once.
C1_OneCycleOnly ==
    ScenarioRan => (trace = OneCycle /\ stops = 1 /\ starts = 1)

\* C1 amended: with the health checks answering 50, 50, 150 and the builder
\* succeeding, each of the two unhealthy answers starts a cycle of its own: the
\* state sequence is the cycle HEALTHY -> STOPPING -> RETRAINING -> RESTARTING ->
\* HEALTHY twice over, and the dependents are stopped twice and restarted twice.
C1_TwoCycles ==
    ScenarioRan => (trace = TwoCycles /\ stops = 2 /\ starts = 2)

C1_Witness ==
    ScenarioRan /\ trace = TwoCycles /\ stops = 2 /\ starts = 2

\* C2: a health check that answers a count of at least MIN_REDIS_KEYS (the
\* threshold included) starts no recovery cycle; only a count strictly below it does.
C2_ThresholdIsHealthy ==
    pc = "stopping" => lastCount < MIN_REDIS_KEYS

\* C3: single flight. At most one recovery cycle is in progress at any time, and
\* the controller is in STOPPING, RETRAINING or RESTARTING only as part of that
\* one cycle, however long the builder has been running.
C3_SingleFlight ==
    /\ active <= 1
    /\ pc \in {"stopping", "retraining", "restarting"} => active = 1
    /\ BuilderRunning => pc = "retraining"

C3_Witness ==
    /\ BuilderRunning
    /\ elapsed > CHECK_INTERVAL
    /\ active = 1

\* C4: the controller goes from RETRAINING to RESTARTING only when the builder run
\* succeeded; a run that failed (a fetch stage failed or returned nothing, no
\* model was fit, an artifact was not persisted) takes it to RETRAIN_FAILED.
C4_RestartOnlyAfterSuccess ==
    state = "RESTARTING" => outcome = "ok"

\* C5: between a failed builder run and the next successful one, while the store
\* has not been refilled, the controller starts no dependent process.
C5_NoStartAfterFailedRun ==
    [][(outcome \notin {"ok", "none"} /\ baselines # runId)
         => \A d \in Sessions : sessions'[d] <= sessions[d]]_vars

\* C6: whenever the builder invoked by the controller is running, all three
\* dependents are stopped.
C6_DependentsStoppedWhileBuilding ==
    BuilderRunning => \A d \in Sessions : sessions[d] = 0

\* C7: the lifecycle hooks are idempotent. No dependent ever has a second
\* instance, whatever was running when start_services was called; and
\* stop_services, called with dependents already stopped, leaves those stopped
\* and hands over to the retraining step.
C7_HooksIdempotent ==
    /\ [](\A d \in Sessions : sessions[d] <= 1)
    /\ [][pc = "stopping" /\ pc' # "stopping"
            => /\ pc' = "retraining"
               /\ \A d \in Sessions : sessions[d] = 0 => sessions'[d] = 0]_vars

C7_Witness ==
    /\ hookSeen = {"stop_on_stopped", "start_on_running"}
    /\ lastLog = "system_recovered"
    /\ \A d \in Sessions : sessions[d] <= 1

\* C8: when a lifecycle hook of a cycle failed, the controller does not take the
\* cycle for a recovery.
C8_HookFailureIsNoRecovery ==
    lastLog = "system_recovered" => ~hookFailed

\* C9: train/serve schema parity. The feature vector the scorer builds has the
\* columns of the training matrix of the run that persisted the schema, in the
\* same order: the seven numeric columns, then the one-hot columns in the order
\* of the persisted schema, none moved and none added.
C9_SchemaParity ==
    fvCols # <<>>
        => /\ fvCols = xTrain.columns
           /\ modelCategories = schemaFile.categories
           /\ Len(fvHot) = Len(schemaFile.categories)

C9_Witness ==
    /\ fvCols # <<>>
    /\ Len(fvCols) = Len(FixedFeatureColumns) + 2
    /\ acks > 0

\* C10: a builder run in which a fetch stage failed (on any page) has ended there,
\* and the baseline records, the schema file and the model file are as they were
\* when the run began.
C10_FetchFailureLeavesArtifacts ==
    outcome = "fetch_failed"
        => /\ ~BuilderRunning
           /\ Artifacts = pre

C10_Witness ==
    /\ outcome = "fetch_failed"
    /\ bpc = "done"
    /\ runId = 2
    /\ baselines = 1
    /\ schemaFile.run = 1
    /\ modelFile.run = 1

\* C11: a builder run whose training matrix is empty, so that no model is fit,
\* leaves the baseline records, the schema file and the model file as they were
\* when the run began.
C11_NoFitLeavesArtifacts ==
    (bpc = "done" /\ outcome = "no_fit") => Artifacts = pre

\* ---- claims on the scorer's callback (SpecScorer). `last` is what the call
\* of callback that has just returned was given, `res` what it did.
Processed == last.trade # NoEvent

\* the lookup found a record for the trade's ticker
LookupPassed ==
    /\ Processed
    /\ last.trade.json
    /\ last.trade.market_ticker # Null
    /\ last.baseline.present

\* one of the six required values is absent
RequiredMissing ==
    \/ last.trade.count = Null
    \/ last.trade.yes_price = Null
    \/ last.trade.ts = Null
    \/ last.baseline.avg_trade_size = Null
    \/ last.baseline.std_dev_trade_size = Null
    \/ last.baseline.close_time = Null

\* a value the callback cannot compute with: of the wrong type, or a standard
\* deviation of -1, which makes the z-score a division by zero
Unusable ==
    \/ last.trade.count = BadType
    \/ last.baseline.close_time = BadType
    \/ last.baseline.std_dev_trade_size = -1

SchemaWidth == Len(ScorerNumericColumns) + Len(modelCategories)

\* the trade passed lookup and validation and the model gave it a score
Scoreable ==
    /\ LookupPassed
    /\ ~RequiredMissing
    /\ ~Unusable
    /\ model.nFeatures = SchemaWidth

\* acknowledged once, nothing published, the consumer still consuming
DroppedAndAcked ==
    /\ res.alerts = <<>>
    /\ res.ops = <<Attempt("ack", TRUE)>>
    /\ ~res.crashed

\* C12: a trade whose ticker has no baseline record produces no alert and is
\* acknowledged without the model being invoked (channel open).
C12_NoBaselineDropped ==
    (Processed /\ last.open /\ last.trade.json
       /\ last.trade.market_ticker # Null /\ ~last.baseline.present)
    => /\ DroppedAndAcked
       /\ ~res.invoked
       /\ res.fv = <<>>

C12_Witness ==
    /\ Processed
    /\ last.open
    /\ last.trade.market_ticker \in Tickers
    /\ ~last.baseline.present
    /\ res.path = "no_baseline"
    /\ acks = 1

\* C13: when the trade lacks count, price or timestamp, or the baseline lacks
\* avg_trade_size, std_dev_trade_size or close_time, the trade is acknowledged,
\* the model is not invoked and no alert is published (channel open).
C13_MissingFieldDropped ==
    (LookupPassed /\ last.open /\ RequiredMissing)
    => /\ DroppedAndAcked
       /\ ~res.invoked
       /\ res.fv = <<>>

C13_Witness ==
    /\ LookupPassed
    /\ last.open
    /\ last.baseline.close_time = Null
    /\ last.trade.count # Null
    /\ res.path = "missing_field"
    /\ acks = 2

\* C14: a trade that passed lookup and validation and got a score publishes
\* exactly one alert when the score is strictly below the threshold and none
\* when it is at or above it; it is acknowledged once either way (channel open).
C14_AlertIffBelowThreshold ==
    (Scoreable /\ last.open)
    => /\ res.invoked
       /\ Len(res.alerts) = (IF res.score < ANOMALY_SCORE_THRESHOLD THEN 1 ELSE 0)
       /\ res.score = (IF last.trade.count > last.baseline.avg_trade_size
                       THEN fitted.large ELSE fitted.small)
       /\ Done(res.ops, "ack") = 1
       /\ Done(res.ops, "publish") = Len(res.alerts)
       /\ ~res.crashed

\* an alert for the first trade, none for the second, both acknowledged
C14_Witness ==
    /\ Scoreable
    /\ last.open
    /\ res.path = "scored"
    /\ res.alerts = <<>>
    /\ published = 1
    /\ acks = 2

\* C15: for a trade that qualifies for an alert the acknowledgement never comes
\* before the publish attempt, and when the publish attempt fails the trade is
\* still acknowledged and the consumer goes on to the next delivery.
C15_FailedPublishStillAcked ==
    (Processed /\ \E i \in DOMAIN res.ops : res.ops[i].op = "publish")
    => /\ \A i, j \in DOMAIN res.ops :
              (res.ops[i].op = "ack" /\ res.ops[j].op = "publish") => j < i
       /\ (Done(res.ops, "publish") = 0)
              => /\ Done(res.ops, "ack") = 1
                 /\ ~res.crashed
                 /\ sPc = "consuming"

\* C16: whatever the message body (no JSON, a field of the wrong type, a
\* close_time that is no date, a model call that fails), callback acknowledges
\* the delivery once, does not raise, and the consumer stays in its loop; the
\* bad input publishes no alert (channel open).
C16_NoInputCrashesLoop ==
    (Processed /\ last.open)
    => /\ ~res.crashed
       /\ Done(res.ops, "ack") = 1
       /\ (chan = "open" => sPc = "consuming")
       /\ (~last.trade.json \/ Unusable
             \/ (LookupPassed /\ model.nFeatures # SchemaWidth))
              => DroppedAndAcked

\* a trade raised in callback and the consumer is ready for the next delivery
C16_Witness ==
    /\ Processed
    /\ last.open
    /\ LookupPassed
    /\ ~RequiredMissing
    /\ Unusable
    /\ res.path = "error"
    /\ acks = 1
    /\ sPc = "consuming"
    /\ chan = "open"
    /\ ev = NoEvent
    /\ delivered < MaxEvents

\* C17: when the vector is not as wide as the model expects, the scoring call
\* fails, the trade is acknowledged without an alert, and the vector handed to
\* the model has the width of the schema: it was not cut or padded (channel
\* open).
C17_WidthMismatchDropped ==
    (LookupPassed /\ last.open /\ ~RequiredMissing /\ ~Unusable
       /\ model.nFeatures # SchemaWidth)
    => /\ res.invoked
       /\ res.path = "error"
       /\ DroppedAndAcked
       /\ Len(res.fv) = SchemaWidth
       /\ Len(res.fv) # model.nFeatures

C17_Witness ==
    /\ LookupPassed
    /\ last.open
    /\ res.invoked
    /\ res.path = "error"
    /\ model.nFeatures = Len(res.fv) + 1
    /\ last.trade.count > last.baseline.avg_trade_size
    /\ fitted.large < ANOMALY_SCORE_THRESHOLD
    /\ published = 0
    /\ acks = 1

\* C18: every feature vector the callback builds has 7 + |schema| entries,
\* whether or not the market's category has a column in the schema.
C18_VectorLength ==
    (Processed /\ res.fv # <<>>)
    => Len(res.fv) = 7 + Len(modelCategories)

\* a vector built for a market whose category has no column in the schema
C18_Witness ==
    /\ Processed
    /\ res.fv # <<>>
    /\ CategoryColumnNames[last.baseline.category] \notin Range(modelCategories)
    /\ Len(res.fv) = 8

\* C19: the entries of the vector after the seventh are 0 or 1; an entry is 1
\* exactly when its schema column is the column of the baseline record's
\* category, so all are 0 when the schema has no such column. The category of
\* the message itself plays no part.
C19_OneHotFromBaseline ==
    (Processed /\ res.fv # <<>>)
    => \A i \in 1..(Len(res.fv) - 7) :
          /\ res.fv[7 + i] \in {0, 1}
          /\ res.fv[7 + i] = 1
                <=> modelCategories[i] = CategoryColumnNames[last.baseline.category]

\* the market's category differs from the message's and has a schema column
C19_Witness ==
    /\ Processed
    /\ res.fv # <<>>
    /\ last.baseline.category # last.trade.category
    /\ Len(modelCategories) = 2
    /\ res.fv[8] = 0
    /\ res.fv[9] = 1

\* C20: an alert's price_paid is the trade's no_price when taker_side is "no"
\* and its yes_price for every other taker_side, a missing one included.
C20_PricePaid ==
    (Processed /\ res.alerts # <<>>)
    => res.alerts[1].price_paid =
          (IF last.trade.taker_side = "no" THEN last.trade.no_price
           ELSE last.trade.yes_price)

\* an alert for a trade without taker_side
C20_Witness ==
    /\ Processed
    /\ Len(res.alerts) = 1
    /\ last.trade.taker_side = "none"
    /\ res.alerts[1].price_paid = last.trade.yes_price
    /\ res.alerts[1].price_paid # last.trade.no_price

RatioEq(a, b) == a[1] * b[2] = b[1] * a[2]

\* the trade is one the callback builds a vector for
Computable == LookupPassed /\ ~RequiredMissing /\ last.trade.count # BadType
                 /\ last.baseline.close_time # BadType

\* C22: the scorer's size_z_score is (count - avg_trade_size) /
\* (std_dev_trade_size + 1), the value the training code computes for the same
\* numbers; for std_dev_trade_size >= 0 the division is never by zero, and for
\* std_dev_trade_size = 0 the value is count - avg_trade_size.
C22_SizeZScore ==
    (Computable /\ last.baseline.std_dev_trade_size >= 0)
    => /\ res.fv # <<>>
       /\ LET c == last.trade.count
              a == last.baseline.avg_trade_size
              sd == last.baseline.std_dev_trade_size
              z == res.fv[4]
          IN  /\ z[2] # 0
              /\ RatioEq(z, <<c - a, sd + 1>>)
              /\ RatioEq(z, TrainSizeZScore(c, a, sd))
              /\ sd = 0 => RatioEq(z, <<c - a, 1>>)

\* a large trade in a market whose trades all had one size
C22_Witness ==
    /\ Computable
    /\ last.baseline.std_dev_trade_size = 0
    /\ res.fv # <<>>
    /\ res.fv[4] = <<450, 1>>
    /\ res.fv[1] - res.fv[3] = 450

\* C23: the scorer's time_to_resolution_hrs is never negative and is the value
\* the training code computes for the same times: 0 when the market closed
\* before the trade, the difference in hours otherwise.
C23_TimeToResolution ==
    (Processed /\ res.fv # <<>>)
    => LET close == last.baseline.close_time
           ts == last.trade.ts
           h == res.fv[5]
       IN  /\ h[2] > 0
           /\ h[1] >= 0
           /\ RatioEq(h, TrainTimeToResolutionHrs(close, ts))
           /\ close < ts => h[1] = 0
           /\ close >= ts => RatioEq(h, <<close - ts, 3600>>)

\* a trade made an hour after its market closed
C23_Witness ==
    /\ Processed
    /\ res.fv # <<>>
    /\ last.baseline.close_time + 3600 = last.trade.ts
    /\ res.fv[5][1] = 0

\* C24: at any time at most one delivered message is unacknowledged, and a
\* message is at the callback only when every earlier delivery has been
\* acknowledged.
C24_OneUnacknowledged ==
    /\ delivered - acks <= 1
    /\ ev # NoEvent => acks = delivered - 1

\* the second message is at the callback, the first has been acknowledged
C24_Witness ==
    /\ ev # NoEvent
    /\ sPc = "consuming"
    /\ delivered = 2
    /\ acks = 1

\* C25: once the scorer has shut down on request, the message that was in
\* flight has been handled to its end and acknowledged, and the connection is
\* released: no delivery is left unacknowledged.
C25_ShutdownFinishesInFlight ==
    sPc = "stopped" => /\ chan = "closed"
                       /\ delivered = acks
                       /\ res.path # "interrupted"

\* C28: every call of callback sends exactly one acknowledgment, whatever the
\* path, an exception during the publish or during the acknowledgment included:
\* one basic_ack call is made and it goes through.
C28_ExactlyOneAck ==
    Processed
    => /\ Cardinality({i \in DOMAIN res.ops : res.ops[i].op = "ack"}) = 1
       /\ Done(res.ops, "ack") = 1

\* C26: when a health check has found the store healthy and the controller is
\* idle until the next one, no dependent that stop_services stopped is still
\* down.
C26_HealthyMeansRestarted ==
    (pc = "sleep" /\ Healthy(lastCount)) => down = {}

\* C29: no failure of the feed connection ends the ingestor's reconnect loop,
\* a failure before the first message included; the ingestor listens again only
\* after it has waited, and with headers made for that attempt.
C29_ReconnectLoopNeverEnds ==
    /\ iPc # "terminated"
    /\ iPc = "listening" => (waited /\ headers = CreateAuthHeaders(clock))

\* C27: when the controller restarts the scorer after a retrain and both files
\* are there to load, schema and model were written by the same builder run,
\* the model expects 7 + |schema| features, and the baselines are not of a
\* later run than the model.
C27_SchemaAndModelOfOneRun ==
    (pc = "restarting" /\ modelFile # NoModel /\ schemaFile # NoSchema)
    => /\ schemaFile.run = modelFile.run
       /\ baselines <= modelFile.run
       /\ modelFile.nFeatures = 7 + Len(schemaFile.categories)

====
